---- MODULE Spec2Model ----
(***************************************************************************)
(* Verification model of the indicator engine of stock_analyzer_bot:       *)
(*   market/services.py  calculators and the composite scorer              *)
(*   market/tasks.py     the historical backfill driver                    *)
(*   market/utils.py     the batched insert into the indicator store       *)
(*   market/views.py     the chart API                                     *)
(*   helpers/clients/_polygon.py  the retry loop of the aggregates client  *)
(*                                                                         *)
(* Numbers.  DecimalField(decimal_places=4) values and values the code     *)
(* rounds to 4 places are integers in units of 1e-4 (Scale).  Python None  *)
(* is the empty tuple and a present dict value v is the 1-tuple <<v>>, so  *)
(* that "absent", "present with None" and "present with v" stay distinct.  *)
(* A Python dict is a function whose DOMAIN is its set of keys.            *)
(***************************************************************************)
EXTENDS Integers, Sequences, FiniteSets, TLC

VARIABLES
    \* --- Bar Store, as the queries of get_stock_indicators see it at timezone.now() ---
    q,          \* [days, dates, in_lookback, rsi_data], see get_stock_indicators
    \* --- composite scorer (services.get_stock_indicators) ---
    scored,     \* outcome of the call: not yet called, a returned dict, or a raised exception
    \* --- moving averages (services.get_daily_moving_averages) ---
    day_bars,   \* bars of the queryset grouped by date, latest date first, each date's closes in time order
    ma_result,  \* the dict returned, or NotCalled
    \* --- RSI (services.calculate_rsi) ---
    rsi_call,       \* [period, rows]: the argument and the bars of the 4*period-day query
    rsi_out,        \* the dict returned, or NotCalled
    rsi_queries,    \* database queries the call executed
    \* --- volume trend (services.get_volume_trend_daily, get_volume_trend_datapoint) ---
    vol_call,           \* [days, rows]: the argument and the bars of the queryset
    vol_daily_out,      \* outcome of get_volume_trend_daily, or NotCalled
    vol_datapoint_out,  \* outcome of get_volume_trend_datapoint, or NotCalled
    \* --- price target (services.get_price_target) ---
    pt_call,        \* the bars of the queryset
    pt_out,         \* the dict returned, None, or NotCalled
    \* --- Indicator Store ---
    store,      \* the StockIndicator table: rows in insertion order
    \* --- tasks.generate_historical_indicators, one entry per run of the task ---
    pc,                     \* "idle", "prefetch", "day_loop", "finished", "cancelled"
    verbose,                \* the verbose argument
    existing_dates,         \* company id -> set of dates prefetched for it
    company_idx,            \* position of the outer loop in the list of active companies
    current_date,           \* day offset from start_date of the inner loop
    day_count,
    skipped_days,
    indicators_to_insert,
    \* --- history of a run, not program state ---
    evaluated,              \* <<company, day>> for which get_stock_indicators was called
    logged,                 \* <<company, day>> whose evaluation raised and was printed
    resumes,                \* <<company, day>> evaluated by runs cancelled before this run started
    \* --- utils.batch_insert_stock_indicators called on its own ---
    ins_call,       \* [dataset, company, batch_size, failing, table]: the arguments, the batches
                    \* whose bulk_create raises, and the table before the call
    ins_out,        \* the number returned, or NotCalled
    \* --- views.stock_data_api ---
    chart_call,     \* [company, days, bars]: the request and the StockQuote rows of its range
    chart_out,      \* the JSON object of the response, or NotCalled
    \* --- PolygonAPIClient.fetch_data ---
    fetch_call,     \* the max_retries argument
    fetch_attempt,  \* the local variable attempt, None before line 244
    fetch_log,      \* history: per HTTP request made, the response and the sleep that followed
    fetch_out,      \* outcome of the call: returned JSON, a raised exception, or NotCalled
    \* --- tasks.sync_historical_stock_data and the tasks it schedules ---
    sync_call,      \* the years_ago argument
    sync_pos,       \* [company, i]: position of the two loops, None when the task has returned
    sync_queue,     \* sync_company_stock_quotes tasks scheduled and not yet run
    sync_requests   \* history: the aggregate requests made, [company, from_date, to_date]

scorer_vars == <<scored>>
ma_vars == <<day_bars, ma_result>>
run_vars == <<pc, verbose, existing_dates, company_idx, current_date, day_count,
              skipped_days, indicators_to_insert, evaluated, logged, resumes>>
calc_vars == <<rsi_call, rsi_out, rsi_queries, vol_call, vol_daily_out,
               vol_datapoint_out, pt_call, pt_out>>
io_vars == <<ins_call, ins_out, chart_call, chart_out, fetch_call, fetch_attempt,
             fetch_log, fetch_out, sync_call, sync_pos, sync_queue, sync_requests>>
vars == <<q, scored, day_bars, ma_result, store, run_vars, calc_vars, io_vars>>

-----------------------------------------------------------------------------
(* Python values *)

None == <<>>
Some(v) == <<v>>
Val(o) == o[1]

NotCalled == [status |-> "not_called"]
Raise(exc) == [status |-> "raise", exc |-> exc]

\* dict.get(key, default)
Get(d, k, default) == IF k \in DOMAIN d THEN d[k] ELSE default

\* variant: only the keys both dicts have are kept
MergeCommon(a, b) == [k \in DOMAIN a \cap DOMAIN b |-> b[k]]

\* {**a, **b}: keys of b override keys of a
Merge(a, b) == b @@ a

\* units of 1e-4: DecimalField(decimal_places=4), round(x, 4)
Scale == 10000

\* round(n/d) to the nearest integer, ties to even (decimal.ROUND_HALF_EVEN, float round)
RoundHalfEven(n, d) ==
    LET fl == n \div d
        r  == n % d
    IN  IF 2 * r > d THEN fl + 1
        ELSE IF 2 * r < d THEN fl
        ELSE IF fl % 2 = 0 THEN fl ELSE fl + 1

\* sum(s), summed by halves to keep the evaluation shallow
RECURSIVE SumRange(_, _, _)
SumRange(s, lo, hi) ==
    IF lo > hi THEN 0
    ELSE IF lo = hi THEN s[lo]
    ELSE LET mid == (lo + hi) \div 2
         IN  SumRange(s, lo, mid) + SumRange(s, mid + 1, hi)

SumSeq(s) == SumRange(s, 1, Len(s))

\* s[:n]
Take(s, n) == SubSeq(s, 1, IF n < Len(s) THEN n ELSE Len(s))

\* a rational number that the code holds as an unrounded float
Frac(n, d) == [num |-> n, den |-> d]

-----------------------------------------------------------------------------
(* services.py: constants for signal thresholds *)

VOLUME_CHANGE_THRESHOLD == 20
RSI_OVERBOUGHT == 70
RSI_OVERSOLD == 30

-----------------------------------------------------------------------------
(* services.get_daily_moving_averages *)

window_specs == << <<5, "ma_5">>, <<20, "ma_20">>, <<50, "ma_50">>,
                   <<100, "ma_100">>, <<200, "ma_200">> >>

MAKeys == {window_specs[i][2] : i \in DOMAIN window_specs}

\* Last('close_price', 'time') of one date: the close of the bar with the greatest time
LastClose(closes_in_time_order) == closes_in_time_order[Len(closes_in_time_order)]

\* daily_closes = [entry['daily_close'] for entry in daily_data], latest date first
DailyCloses(bars_by_day) == [i \in 1..Len(bars_by_day) |-> LastClose(bars_by_day[i])]

\* variant: averages whatever closes there are when the window is not full
moving_average_partial(daily_closes, window_size) ==
    IF Len(daily_closes) >= window_size
    THEN Some(RoundHalfEven(SumSeq(Take(daily_closes, window_size)), window_size))
    ELSE IF Len(daily_closes) > 0
    THEN Some(RoundHalfEven(SumSeq(daily_closes), Len(daily_closes)))
    ELSE None

\* one pass of the loop over window_specs
moving_average(daily_closes, window_size) ==
    IF Len(daily_closes) >= window_size
    THEN Some(RoundHalfEven(SumSeq(Take(daily_closes, window_size)), window_size))
    ELSE None

get_daily_moving_averages(bars_by_day) ==
    LET daily_closes == DailyCloses(bars_by_day)
    IN  [key \in MAKeys |->
            LET spec == CHOOSE i \in DOMAIN window_specs : window_specs[i][2] = key
            IN  moving_average(daily_closes, window_specs[spec][1])]

-----------------------------------------------------------------------------
(* services.calculate_rsi: the result dicts *)

\* lines 379-391: the RSI of the final averages, rounded to 4 places
rsi_result(avg_gain, avg_loss, period) ==
    LET rsi == IF avg_loss = 0 THEN 100 * Scale
               ELSE RoundHalfEven(100 * Scale * avg_gain, avg_gain + avg_loss)
    IN  [rsi |-> Some(rsi), avg_gain |-> Some(avg_gain),
         avg_loss |-> Some(avg_loss), period |-> Some(period)]

\* lines 345-350: fewer valid days than the period
rsi_insufficient(days_available, period) ==
    [error |-> Some("Insufficient data"), days_available |-> Some(days_available),
     period |-> Some(period)]

-----------------------------------------------------------------------------
(* services.calculate_rsi.  rows are the rows of daily_data in the order of    *)
(* order_by('bucket'), each [day, close].  time_bucket('time', '1 day') called *)
(* without annotations is values(bucket=TimeBucket(...)): it labels every bar  *)
(* with its day and groups nothing, and Window(Lag(...)) is not an aggregate,  *)
(* so the queryset keeps one row per bar.  Averages are Decimals with 28       *)
(* significant digits; they are held exactly, as numerators over a common      *)
(* denominator, in units of 1e-4.                                              *)

\* variant: an invalid period reports a neutral RSI
invalid_period_result_neutral(period) ==
    [error |-> Some("Invalid period"), period |-> Some(period), rsi |-> Some(50 * Scale)]

\* lines 297-301
invalid_period_result(period) ==
    [error |-> Some("Invalid period"), period |-> Some(period)]

\* lines 330-334
gain(price_change) == IF price_change > 0 THEN price_change ELSE 0

\* lines 336-340
loss(price_change) == IF price_change < 0 THEN -price_change ELSE 0

\* lines 315-341: Lag('close_price') over the rows ordered by bucket
movement(rows) ==
    [i \in DOMAIN rows |->
        LET prev_close == IF i = 1 THEN None ELSE Some(rows[i - 1].close)
            price_change == rows[i].close -
                                (IF prev_close = None THEN rows[i].close ELSE Val(prev_close))
        IN  [prev_close |-> prev_close, price_change |-> price_change,
             gain |-> gain(price_change), loss |-> loss(price_change)]]

\* line 344
valid_movement(rows) == SelectSeq(movement(rows), LAMBDA m : m.prev_close # None)

\* lines 353-362: Avg over valid_movement[:period]
initial_avg(valid, period) ==
    [gain |-> SumSeq([i \in 1..period |-> valid[i].gain]),
     loss |-> SumSeq([i \in 1..period |-> valid[i].loss]),
     den |-> period]

\* lines 366-377: the loop from row i (1-based) on; avg is [gain, loss, den]
RECURSIVE wilder_ema(_, _, _, _)
wilder_ema(avg, valid, i, period) ==
    IF i > Len(valid) THEN avg
    ELSE wilder_ema([gain |-> avg.gain * (period - 1) + valid[i].gain * avg.den,
                     loss |-> avg.loss * (period - 1) + valid[i].loss * avg.den,
                     den |-> avg.den * period],
                    valid, i + 1, period)

\* variant: the relative strength itself is reported as a percentage
rsi_report_relative_strength(gain_num, loss_num, den, period) ==
    LET rsi == IF loss_num = 0 THEN 100 * Scale
               ELSE RoundHalfEven(100 * Scale * gain_num, loss_num)
    IN  [rsi |-> Some(rsi), avg_gain |-> Some(RoundHalfEven(gain_num, den)),
         avg_loss |-> Some(RoundHalfEven(loss_num, den)), period |-> Some(period)]

\* lines 379-391 for averages gain_num/den and loss_num/den
rsi_report(gain_num, loss_num, den, period) ==
    LET rsi == IF loss_num = 0 THEN 100 * Scale
               ELSE RoundHalfEven(100 * Scale * gain_num, gain_num + loss_num)
    IN  [rsi |-> Some(rsi), avg_gain |-> Some(RoundHalfEven(gain_num, den)),
         avg_loss |-> Some(RoundHalfEven(loss_num, den)), period |-> Some(period)]

calculate_rsi(period, rows) ==
    IF period < 1 THEN invalid_period_result(period)
    ELSE LET valid == valid_movement(rows)
         IN  IF Len(valid) < period THEN rsi_insufficient(Len(valid), period)
             ELSE LET final == wilder_ema(initial_avg(valid, period), valid,
                                          period + 1, period)
                  IN  rsi_report(final.gain, final.loss, final.den, period)

\* the queries a call executes: none before line 307; count() at lines 345 and
\* 348; count(), aggregate() and the iteration at lines 345, 353 and 366
calculate_rsi_queries(period, rows) ==
    IF period < 1 THEN 0
    ELSE IF Len(valid_movement(rows)) < period THEN 2
    ELSE 3

-----------------------------------------------------------------------------
(* services.get_volume_trend_daily: daily_list holds one record per date of    *)
(* the queryset, latest date first, daily_volume = Sum('volume')               *)

\* Decimal division by a zero Decimal: decimal.DivisionByZero, and
\* decimal.InvalidOperation for 0 / 0; both are trapped, that is raised
decimal_division_by_zero(dividend) ==
    IF dividend = 0 THEN Raise("InvalidOperation") ELSE Raise("DivisionByZero")

\* lines 123-129: one record per date that has a bar, latest date first; rows
\* are the bars of the queryset in time order, each [day, volume]
RECURSIVE dates_descending(_)
dates_descending(dates) ==
    IF dates = {} THEN <<>>
    ELSE LET latest == CHOOSE d \in dates : \A e \in dates : e <= d
         IN  <<latest>> \o dates_descending(dates \ {latest})

daily_volumes(rows) ==
    LET dates == dates_descending({rows[i].day : i \in DOMAIN rows})
    IN  [k \in DOMAIN dates |->
            [date |-> dates[k],
             volume |-> SumSeq([i \in DOMAIN rows |->
                            IF rows[i].day = dates[k] THEN rows[i].volume ELSE 0])]]

\* variant: the latest day is part of the average
get_volume_trend_daily_with_latest(days, daily_list) ==
    IF Len(daily_list) < days + 1 THEN None
    ELSE LET latest_volume == daily_list[1].volume
             prev_days == SubSeq(daily_list, 1, days)
             total == SumSeq([i \in 1..Len(prev_days) |-> prev_days[i].volume])
         IN  IF total = 0 THEN decimal_division_by_zero(latest_volume * days - total)
             ELSE [avg_volume_daily |-> Some(Frac(total, days)),
                   latest_volume_daily |-> Some(Frac(latest_volume, 1)),
                   volume_change_percent_daily |->
                       Some(Frac((latest_volume * days - total) * 100, total))]

get_volume_trend_daily(days, daily_list) ==
    IF Len(daily_list) < days + 1 THEN None
    ELSE LET latest_volume == daily_list[1].volume
             prev_days == SubSeq(daily_list, 2, days + 1)
             total == SumSeq([i \in 1..Len(prev_days) |-> prev_days[i].volume])
             \* avg_volume = total / days; (latest - avg) / avg * 100
         IN  IF total = 0 THEN decimal_division_by_zero(latest_volume * days - total)
             ELSE [avg_volume_daily |-> Some(Frac(total, days)),
                   latest_volume_daily |-> Some(Frac(latest_volume, 1)),
                   volume_change_percent_daily |->
                       Some(Frac((latest_volume * days - total) * 100, total))]

\* services.get_volume_trend_datapoint: rows are the bars of the queryset in
\* time order; the frame of the latest bar holds the days latest bars
get_volume_trend_datapoint(days, rows) ==
    IF Len(rows) < days THEN None
    ELSE IF rows = <<>> THEN None        \* annotated_qs.first() is None
    ELSE LET data_point == rows[Len(rows)]
             frame == SubSeq(rows, Len(rows) - days + 1, Len(rows))
             total == SumSeq([i \in 1..Len(frame) |-> frame[i].volume])
             \* avg_volume = total / days; (volume - avg) / avg * 100
         IN  IF total = 0 THEN decimal_division_by_zero(data_point.volume * days - total)
             ELSE [avg_volume_datapoint |-> Some(Frac(total, days)),
                   latest_volume_datapoint |-> Some(Frac(data_point.volume, 1)),
                   volume_change_percent_datapoint |->
                       Some(Frac((data_point.volume * days - total) * 100, total))]

-----------------------------------------------------------------------------
(* services.get_price_target: daily_list holds daily_high = Max('high_price'), *)
(* daily_low = Min('low_price'), daily_close = Last('close_price', 'time');    *)
(* the floats returned are held in units of 1e-7 (PriceUnit per 1e-4)          *)

FibConservative == 382
FibAggressive == 618
PriceUnit == 1000

\* variant: the value of the latest day instead of the maximum
SeqMaxOfLatest(s) == s[1]

SeqMax(s) == CHOOSE m \in {s[i] : i \in DOMAIN s} : \A i \in DOMAIN s : s[i] <= m
SeqMin(s) == CHOOSE m \in {s[i] : i \in DOMAIN s} : \A i \in DOMAIN s : s[i] >= m

\* lines 172-182: one record per date that has a bar, latest date first; rows
\* are the bars of the queryset in time order, each [day, high, low, close]
daily_prices(rows) ==
    LET dates == dates_descending({rows[i].day : i \in DOMAIN rows})
    IN  [k \in DOMAIN dates |->
            LET bars == SelectSeq(rows, LAMBDA r : r.day = dates[k])
            IN  [date |-> dates[k],
                 high |-> SeqMax([i \in DOMAIN bars |-> bars[i].high]),
                 low |-> SeqMin([i \in DOMAIN bars |-> bars[i].low]),
                 close |-> bars[Len(bars)].close]]

\* variant: a flat market has no target
get_price_target_flat_absent(daily_list) ==
    IF daily_list = <<>> THEN None
    ELSE LET current_price == daily_list[1].close
             highest == SeqMax([i \in DOMAIN daily_list |-> daily_list[i].high])
             lowest == SeqMin([i \in DOMAIN daily_list |-> daily_list[i].low])
             price_range == highest - lowest
             total_close == SumSeq([i \in DOMAIN daily_list |-> daily_list[i].close])
         IN  IF highest = lowest THEN None
             ELSE [current_price |-> Some(PriceUnit * current_price),
                   conservative_target |->
                       Some(PriceUnit * current_price + price_range * FibConservative),
                   aggressive_target |->
                       Some(PriceUnit * current_price + price_range * FibAggressive),
                   average_price |-> Some(Frac(PriceUnit * total_close, Len(daily_list))),
                   period_high |-> Some(PriceUnit * highest),
                   period_low |-> Some(PriceUnit * lowest)]

get_price_target(daily_list) ==
    IF daily_list = <<>> THEN None
    ELSE LET current_price == daily_list[1].close
             highest == SeqMax([i \in DOMAIN daily_list |-> daily_list[i].high])
             lowest == SeqMin([i \in DOMAIN daily_list |-> daily_list[i].low])
             price_range == highest - lowest
             total_close == SumSeq([i \in DOMAIN daily_list |-> daily_list[i].close])
         IN  IF highest = lowest
             THEN [current_price |-> Some(PriceUnit * current_price),
                   conservative_target |-> Some(PriceUnit * current_price),
                   aggressive_target |-> Some(PriceUnit * current_price),
                   average_price |-> Some(Frac(PriceUnit * current_price, 1)),
                   period_high |-> Some(PriceUnit * highest),
                   period_low |-> Some(PriceUnit * lowest)]
             ELSE [current_price |-> Some(PriceUnit * current_price),
                   conservative_target |->
                       Some(PriceUnit * current_price + price_range * FibConservative),
                   aggressive_target |->
                       Some(PriceUnit * current_price + price_range * FibAggressive),
                   average_price |-> Some(Frac(PriceUnit * total_close, Len(daily_list))),
                   period_high |-> Some(PriceUnit * highest),
                   period_low |-> Some(PriceUnit * lowest)]

-----------------------------------------------------------------------------
(* services.get_stock_indicators: the composite scorer.                        *)
(* data is what the store holds at timezone.now() for the ticker:              *)
(*   data.dates        the dates of get_stock_quotes_queryset(ticker, 200),    *)
(*                     latest first: closes in time order, high, low, volume   *)
(*   data.in_lookback  how many of the latest of these dates lie in            *)
(*                     get_stock_quotes_queryset(ticker, days)                 *)
(*   data.rsi_data     the dict calculate_rsi(ticker) returns; it reads its    *)
(*                     own 56-day query bar by bar                             *)

\* lines 421-440: one crossover pair; ordering a float against None raises TypeError
ma_pairs == << <<"ma_5", "ma_20">>, <<"ma_20", "ma_50">>,
               <<"ma_50", "ma_100">>, <<"ma_100", "ma_200">> >>

\* variant: a tie counts as bullish
ma_signal_tie_bullish(shorter, longer) == IF Val(shorter) >= Val(longer) THEN 1 ELSE -1

ma_signal(shorter, longer) == IF Val(shorter) > Val(longer) THEN 1 ELSE -1

\* variant: the current price is compared with the average price
price_target_signal_vs_average(price_target) ==
    LET current_price == Get(price_target, "current_price", Some(0))
        average_price == Get(price_target, "average_price", Some(Frac(0, 1)))
    IN  IF Val(current_price) * Val(average_price).den < Val(average_price).num
        THEN 1 ELSE -1

\* lines 442-448
price_target_signal(price_target) ==
    LET current_price == Get(price_target, "current_price", Some(0))
        conservative_target == Get(price_target, "conservative_target", Some(0))
    IN  IF Val(current_price) < Val(conservative_target) THEN 1 ELSE -1

\* lines 450-457; the percentage is an unrounded float, held as a fraction
volume_signal(volume_trend_daily) ==
    LET volume_change == Get(volume_trend_daily, "volume_change_percent_daily", Some(Frac(0, 1)))
        n == Val(volume_change).num
        d == Val(volume_change).den
    IN  IF n > VOLUME_CHANGE_THRESHOLD * d THEN 1
        ELSE IF n < (-VOLUME_CHANGE_THRESHOLD) * d THEN -1
        ELSE 0

\* variant: an overbought RSI weighs double
rsi_signal_double(rsi_data) ==
    LET rsi == Get(rsi_data, "rsi", Some(50 * Scale))
    IN  IF Val(rsi) > RSI_OVERBOUGHT * Scale THEN -2
        ELSE IF Val(rsi) < RSI_OVERSOLD * Scale THEN 1
        ELSE 0

\* lines 459-466
rsi_signal(rsi_data) ==
    LET rsi == Get(rsi_data, "rsi", Some(50 * Scale))
    IN  IF Val(rsi) > RSI_OVERBOUGHT * Scale THEN -1
        ELSE IF Val(rsi) < RSI_OVERSOLD * Scale THEN 1
        ELSE 0

IsRaise(r) == r # None /\ "status" \in DOMAIN r /\ r.status = "raise"

\* the dates of the lookback queryset, each aggregated as the calculators do
LookbackDailyList(data) ==
    [i \in 1..data.in_lookback |->
        [close |-> LastClose(data.dates[i].closes), high |-> data.dates[i].high,
         low |-> data.dates[i].low, volume |-> data.dates[i].volume]]

AllCloses(data) == [i \in DOMAIN data.dates |-> data.dates[i].closes]

get_stock_indicators(days, data) ==
    IF data.in_lookback = 0 THEN Raise("Exception")   \* queryset.count() == 0
    ELSE
    LET daily_list == LookbackDailyList(data)
        averages == get_daily_moving_averages(AllCloses(data))
        price_target == get_price_target(daily_list)
        volume_trend_daily == get_volume_trend_daily(days, daily_list)
        rsi_data == data.rsi_data
        absent_pair(i) == averages[ma_pairs[i][1]] = None \/ averages[ma_pairs[i][2]] = None
    IN  IF IsRaise(volume_trend_daily) THEN volume_trend_daily
        ELSE IF \E i \in DOMAIN ma_pairs : absent_pair(i) THEN Raise("TypeError")
        ELSE IF price_target = None THEN Raise("AttributeError")
        ELSE IF volume_trend_daily = None THEN Raise("AttributeError")
        ELSE LET signals ==
                    [i \in DOMAIN ma_pairs |->
                        ma_signal(averages[ma_pairs[i][1]], averages[ma_pairs[i][2]])]
                    \o << price_target_signal(price_target),
                          volume_signal(volume_trend_daily),
                          rsi_signal(rsi_data) >>
             IN  [status |-> "ok",
                  days |-> days,
                  signals |-> signals,
                  score |-> SumSeq(signals),
                  indicators |-> Merge(Merge(Merge(averages, price_target),
                                             volume_trend_daily), rsi_data)]

-----------------------------------------------------------------------------
(* Inputs of the scorer and of the moving averages *)

\* closes of the dates of a queryset, latest first: the k latest dates have two
\* bars, the earlier one closing higher than the last one; older dates have one
DateCloses(i, k, a, b) == IF i <= k THEN <<a + 1, a>> ELSE <<b>>
MADays(n, k, a, b) == [i \in 1..n |-> DateCloses(i, k, a, b)]

\* dates of the 200-day queryset, latest first: closes as in MADays; the latest
\* date trades up to spread above its highest close and has volume
\* latest_volume, every other date has volume base_volume
Dates(n, k, a, b, spread, latest_volume, base_volume) ==
    [i \in 1..n |->
        LET closes == DateCloses(i, k, a, b)
        IN  [closes |-> closes,
             high |-> SeqMax(closes) + (IF i = 1 THEN spread ELSE 0),
             low |-> SeqMin(closes),
             volume |-> IF i = 1 THEN latest_volume ELSE base_volume]]

MaxDailyCloses == 202     \* dates a 201-day time__range can touch
MaxRecent == 5            \* latest dates that carry a second bar
MaxLookback == 2          \* the days argument of get_stock_indicators

ClosePairs == { <<30001, 20000>>, <<20000, 30001>>, <<25000, 25000>> }

ScoreLengths == {0, 4, 199, MaxDailyCloses}
ScoreRecent == {0, 4, 20, 100}

ScoreVolumes ==
    { <<79, 100>>, <<80, 100>>, <<100, 100>>, <<120, 100>>, <<121, 100>>, <<100, 0>> }

ScoreRsi ==
    { rsi_result(7, 3, 14), rsi_result(701, 299, 14),
      rsi_result(3, 7, 14), rsi_result(299, 701, 14),
      rsi_insufficient(4, 14) }

\* calculate_rsi(ticker) runs with period 14 over the bars of the last 4 * 14
\* days.  Of n dates with bars among the 202 dates the 200-day queryset can
\* touch, at most 202 - 57 lie before the 57 dates of that range and the
\* earliest date of the range may be cut off: it holds at least n - 146 bars,
\* and reports insufficient data only with fewer than period + 1 of them
rsi_default_period == 14

RsiCanBeInsufficient(n) == n - ((202 - (4 * rsi_default_period + 1)) + 1) <= rsi_default_period

-----------------------------------------------------------------------------
(* Dates and instants of the backfill.  Day d is start_date.date() + d; the    *)
(* range of a run is days 0..n_days, end_date = timezone.now() lies in day     *)
(* n_days.  An instant is a day and a time of day: "now" is the time of day of *)
(* timezone.now(), "eod" is 23:59:59.                                          *)

NDays == 2              \* the n_days argument
NumCompanies == 2       \* active companies

Runs == {1, 2}          \* two runs of the task: one and a concurrent or later one
Companies == 1..NumCompanies
start_date == 0
end_date == NDays
total_days == (end_date - start_date) + 1
RangeDays == start_date..end_date

Now == [day |-> end_date, tod |-> "now"]
EvalTime(d) == [day |-> d, tod |-> "eod"]
DateOf(t) == t.day
NotAfter(a, b) == a.day < b.day \/ (a.day = b.day /\ (a.tod = b.tod \/ b.tod = "eod"))

-----------------------------------------------------------------------------
(* Indicator Store: the StockIndicator table and bulk_create *)

\* the uniqueness constraint of the table
StockIndicatorKey(row) == <<row.company, DateOf(row.time)>>

HasSnapshot(table, company, day) ==
    \E i \in DOMAIN table : StockIndicatorKey(table[i]) = <<company, day>>

\* StockIndicator.objects.bulk_create(objs, ignore_conflicts=True): a row whose
\* key is already in the table is dropped, without an error
RECURSIVE bulk_create(_, _)
bulk_create(table, objs) ==
    IF objs = <<>> THEN table
    ELSE LET row == Head(objs)
             kept == IF HasSnapshot(table, row.company, DateOf(row.time))
                     THEN table ELSE Append(table, row)
         IN  bulk_create(kept, Tail(objs))

-----------------------------------------------------------------------------
(* utils.batch_insert_stock_indicators *)

batch_size == 100

RequiredFields == {"time", "score", "indicators"}

\* lines 110-130: the records of one batch that become model instances
RECURSIVE chunked_indicators(_, _)
chunked_indicators(batch_chunk, company) ==
    IF batch_chunk = <<>> THEN <<>>
    ELSE LET data == Head(batch_chunk)
             rest == chunked_indicators(Tail(batch_chunk), company)
         IN  IF RequiredFields \subseteq DOMAIN data
             THEN << [company |-> company, time |-> data.time, score |-> data.score,
                      indicators |-> data.indicators, bars_upto |-> data.bars_upto] >> \o rest
             ELSE rest

\* lines 98-141: the loop over batches from record i on; yields the table and
\* the value of processed_records.  failing holds the numbers of the batches
\* whose bulk_create raises: lines 139-141 catch the exception, and the batch
\* writes nothing and adds nothing to processed_records
RECURSIVE insert_batches(_, _, _, _, _, _, _)
insert_batches(table, dataset, company, size, failing, i, processed_records) ==
    IF i > Len(dataset) THEN [table |-> table, processed_records |-> processed_records]
    ELSE LET batch_end == IF i + size - 1 < Len(dataset)
                          THEN i + size - 1 ELSE Len(dataset)
             chunk == chunked_indicators(SubSeq(dataset, i, batch_end), company)
         IN  IF ((i - 1) \div size) + 1 \in failing
             THEN insert_batches(table, dataset, company, size, failing,
                                 i + size, processed_records)
             ELSE insert_batches(bulk_create(table, chunk), dataset, company, size, failing,
                                 i + size, processed_records + Len(chunk))

\* lines 84-149: the call with a company object
batch_insert_stock_indicators(table, dataset, company, size, failing) ==
    IF dataset = <<>> THEN [table |-> table, processed_records |-> 0]
    ELSE insert_batches(table, dataset, company, size, failing, 1, 0)

-----------------------------------------------------------------------------
(* tasks.generate_historical_indicators *)

\* variant: get_stock_indicators also accepts as_of_date
get_stock_indicators_params_as_of == {"ticker", "days", "as_of_date"}

\* services.py line 393: the parameters get_stock_indicators accepts
get_stock_indicators_params == {"ticker", "days"}

\* tasks.py lines 234-238: the keyword arguments of the call, and days=30
backfill_call_kwargs == {"ticker", "days", "as_of_date"}
backfill_lookback == 30

\* a Python call binds its keyword arguments to parameters or raises TypeError
\* before the body runs; the body reads the store as of timezone.now()
call_get_stock_indicators(kwargs, data) ==
    IF kwargs \subseteq get_stock_indicators_params
    THEN get_stock_indicators(backfill_lookback, data)
    ELSE Raise("TypeError")

\* services.get_stock_quotes_queryset lines 41-48: the latest bar a call can read
queryset_upper_bound == Now

\* variant: the datetime itself, not its date, is looked up among the dates
already_exists_datetime(day, company_existing_dates) == FALSE

\* line 223
already_exists(day, company_existing_dates) == day \in company_existing_dates

\* variant: an error ends the day loop of the company
date_after_error_break(day) == end_date + 1

\* lines 252-256: the handler prints and falls through to the increment
date_after_error(day) == day + 1

\* variant: the skip of a day that has a snapshot leaves the date alone
date_after_skip_stay(day) == day

\* lines 223-226: a day that has a snapshot is counted as skipped and passed
date_after_skip(day) == day + 1

\* no calculator has been called on its own
IdleCalculators ==
    /\ rsi_call = None /\ rsi_out = NotCalled /\ rsi_queries = 0
    /\ vol_call = None /\ vol_daily_out = NotCalled /\ vol_datapoint_out = NotCalled
    /\ pt_call = None /\ pt_out = NotCalled

\* no insert, chart request, fetch or historical sync is under way
IdleIO ==
    /\ ins_call = None /\ ins_out = NotCalled
    /\ chart_call = None /\ chart_out = NotCalled
    /\ fetch_call = None /\ fetch_attempt = None /\ fetch_log = <<>> /\ fetch_out = NotCalled
    /\ sync_call = None /\ sync_pos = None /\ sync_queue = <<>> /\ sync_requests = <<>>

IdleDriver ==
    /\ store = <<>>
    /\ pc = [r \in Runs |-> "idle"]
    /\ verbose = [r \in Runs |-> TRUE]
    /\ existing_dates = [r \in Runs |-> [c \in Companies |-> {}]]
    /\ company_idx = [r \in Runs |-> 1]
    /\ current_date = [r \in Runs |-> start_date]
    /\ day_count = [r \in Runs |-> 0]
    /\ skipped_days = [r \in Runs |-> 0]
    /\ indicators_to_insert = [r \in Runs |-> <<>>]
    /\ evaluated = [r \in Runs |-> {}]
    /\ logged = [r \in Runs |-> {}]
    /\ resumes = [r \in Runs |-> {}]

\* a snapshot written earlier for (company, day)
StoredRow(company, day) ==
    [company |-> company, time |-> EvalTime(day), score |-> 0,
     indicators |-> <<>>, bars_upto |-> EvalTime(day)]

\* the table holding a snapshot for exactly the keys of have, in key order
RECURSIVE TableOf(_)
TableOf(have) ==
    IF have = {} THEN <<>>
    ELSE LET k == CHOOSE x \in have :
                    \A y \in have : x[1] < y[1] \/ (x[1] = y[1] /\ x[2] <= y[2])
         IN  <<StoredRow(k[1], k[2])>> \o TableOf(have \ {k})

BackfillBars ==
    { [days |-> backfill_lookback,
       dates |-> Dates(MaxDailyCloses, 4, 30001, 20000, 100, 121 * Scale, 100 * Scale),
       in_lookback |-> m,
       rsi_data |-> rsi_result(1, 1, 14)] : m \in {0, backfill_lookback + 1} }

Init ==
    /\ IdleCalculators
    /\ IdleIO
    /\ q \in BackfillBars
    /\ scored = NotCalled
    /\ day_bars = <<>>
    /\ ma_result = NotCalled
    /\ store \in {TableOf(cs \X ds) : cs \in SUBSET Companies, ds \in SUBSET RangeDays}
    /\ pc = [r \in Runs |-> "idle"]
    /\ verbose = [r \in Runs |-> TRUE]
    /\ existing_dates = [r \in Runs |-> [c \in Companies |-> {}]]
    /\ company_idx = [r \in Runs |-> 1]
    /\ current_date = [r \in Runs |-> start_date]
    /\ day_count = [r \in Runs |-> 0]
    /\ skipped_days = [r \in Runs |-> 0]
    /\ indicators_to_insert = [r \in Runs |-> <<>>]
    /\ evaluated = [r \in Runs |-> {}]
    /\ logged = [r \in Runs |-> {}]
    /\ resumes = [r \in Runs |-> {}]

\* lines 173-191: the task starts; everything after line 190 is inside "if verbose:"
Start(r) ==
    /\ pc[r] = "idle"
    /\ \E v \in BOOLEAN :
        /\ verbose' = [verbose EXCEPT ![r] = v]
        /\ pc' = [pc EXCEPT ![r] = IF v THEN "prefetch" ELSE "finished"]
    /\ resumes' = [resumes EXCEPT ![r] =
                      UNION {evaluated[o] : o \in {x \in Runs : pc[x] = "cancelled"}}]
    /\ UNCHANGED <<io_vars, calc_vars, q, scored, day_bars, ma_result, store, existing_dates, company_idx,
                   current_date, day_count, skipped_days, indicators_to_insert,
                   evaluated, logged>>

\* lines 193-215: prefetch the dates that have a snapshot, enter the first company
Prefetch(r) ==
    /\ pc[r] = "prefetch"
    /\ existing_dates' = [existing_dates EXCEPT ![r] =
            [c \in Companies |-> {d \in RangeDays : HasSnapshot(store, c, d)}]]
    /\ pc' = [pc EXCEPT ![r] = "day_loop"]
    /\ company_idx' = [company_idx EXCEPT ![r] = 1]
    /\ current_date' = [current_date EXCEPT ![r] = start_date]
    /\ day_count' = [day_count EXCEPT ![r] = 0]
    /\ skipped_days' = [skipped_days EXCEPT ![r] = 0]
    /\ indicators_to_insert' = [indicators_to_insert EXCEPT ![r] = <<>>]
    /\ UNCHANGED <<io_vars, calc_vars, q, scored, day_bars, ma_result, store, verbose, evaluated, logged, resumes>>

\* lines 216-256: one iteration of "while current_date <= end_date"
DayStep(r) ==
    /\ pc[r] = "day_loop"
    /\ current_date[r] <= end_date
    /\ LET company == company_idx[r]
           day == current_date[r]
       IN  /\ day_count' = [day_count EXCEPT ![r] = @ + 1]
           /\ IF already_exists(day, existing_dates[r][company])
              THEN /\ skipped_days' = [skipped_days EXCEPT ![r] = @ + 1]
                   /\ current_date' = [current_date EXCEPT ![r] = date_after_skip(day)]
                   /\ UNCHANGED <<indicators_to_insert, evaluated, logged>>
              ELSE LET eval_time == EvalTime(day)
                       result == call_get_stock_indicators(backfill_call_kwargs, q)
                   IN  /\ evaluated' = [evaluated EXCEPT ![r] = @ \cup {<<company, day>>}]
                       /\ UNCHANGED skipped_days
                       /\ IF IsRaise(result)
                          THEN /\ logged' = [logged EXCEPT ![r] = @ \cup {<<company, day>>}]
                               /\ current_date' =
                                      [current_date EXCEPT ![r] = date_after_error(day)]
                               /\ UNCHANGED indicators_to_insert
                          ELSE IF result = None
                          THEN UNCHANGED <<logged, current_date, indicators_to_insert>>
                          ELSE /\ indicators_to_insert' =
                                      [indicators_to_insert EXCEPT ![r] = Append(@,
                                          [time |-> eval_time, score |-> result.score,
                                           indicators |-> result.indicators,
                                           bars_upto |-> queryset_upper_bound])]
                               /\ current_date' = [current_date EXCEPT ![r] = day + 1]
                               /\ UNCHANGED logged
    /\ UNCHANGED <<io_vars, calc_vars, q, scored, day_bars, ma_result, store, pc, verbose, existing_dates,
                   company_idx, resumes>>

\* lines 258-269 and the next pass of "for company in companies" (lines 203-215)
FinishCompany(r) ==
    /\ pc[r] = "day_loop"
    /\ current_date[r] > end_date
    /\ LET inserted == batch_insert_stock_indicators(store, indicators_to_insert[r],
                                                     company_idx[r], batch_size, {})
       IN  store' = IF indicators_to_insert[r] # <<>> THEN inserted.table ELSE store
    /\ IF company_idx[r] < NumCompanies
       THEN /\ company_idx' = [company_idx EXCEPT ![r] = @ + 1]
            /\ current_date' = [current_date EXCEPT ![r] = start_date]
            /\ UNCHANGED pc
       ELSE /\ pc' = [pc EXCEPT ![r] = "finished"]
            /\ UNCHANGED <<company_idx, current_date>>
    /\ day_count' = [day_count EXCEPT ![r] = 0]
    /\ skipped_days' = [skipped_days EXCEPT ![r] = 0]
    /\ indicators_to_insert' = [indicators_to_insert EXCEPT ![r] = <<>>]
    /\ UNCHANGED <<io_vars, calc_vars, q, scored, day_bars, ma_result, verbose, existing_dates,
                   evaluated, logged, resumes>>

\* the worker running the task is stopped: what it held in memory is gone
Cancel(r) ==
    /\ pc[r] \in {"prefetch", "day_loop"}
    /\ pc' = [pc EXCEPT ![r] = "cancelled"]
    /\ existing_dates' = [existing_dates EXCEPT ![r] = [c \in Companies |-> {}]]
    /\ company_idx' = [company_idx EXCEPT ![r] = 1]
    /\ current_date' = [current_date EXCEPT ![r] = start_date]
    /\ day_count' = [day_count EXCEPT ![r] = 0]
    /\ skipped_days' = [skipped_days EXCEPT ![r] = 0]
    /\ indicators_to_insert' = [indicators_to_insert EXCEPT ![r] = <<>>]
    /\ UNCHANGED <<io_vars, calc_vars, q, scored, day_bars, ma_result, store, verbose, evaluated, logged, resumes>>

Next ==
    \E r \in Runs :
        \/ Start(r)
        \/ Prefetch(r)
        \/ DayStep(r)
        \/ FinishCompany(r)
        \/ Cancel(r)

Spec == Init /\ [][Next]_vars

-----------------------------------------------------------------------------
(* Specification of the composite scorer: one call on one store content *)

InitScore ==
    /\ IdleCalculators
    /\ \E days \in 1..MaxLookback, m \in 0..(MaxLookback + 2), spread \in {0, 100},
          v \in ScoreVolumes, n \in ScoreLengths, k \in ScoreRecent, p \in ClosePairs,
          rsi \in ScoreRsi :
            /\ m <= days + 2 /\ m <= n /\ k <= n
            /\ ("error" \in DOMAIN rsi) => RsiCanBeInsufficient(n)
            /\ q = [days |-> days,
                    dates |-> Dates(n, k, p[1], p[2], spread, v[1] * Scale, v[2] * Scale),
                    in_lookback |-> m,
                    rsi_data |-> rsi]
    /\ scored = NotCalled
    /\ day_bars = <<>>
    /\ ma_result = NotCalled
    /\ IdleDriver
    /\ IdleIO

ScoreCall ==
    /\ scored = NotCalled
    /\ scored' = get_stock_indicators(q.days, q)
    /\ UNCHANGED <<calc_vars, q, day_bars, ma_result, store, run_vars, io_vars>>

NextScore == ScoreCall

SpecScore == InitScore /\ [][NextScore]_vars

-----------------------------------------------------------------------------
(* Specification of the moving averages: one call on one queryset *)

InitMA ==
    /\ IdleCalculators
    /\ \E n \in 0..MaxDailyCloses, k \in 0..MaxRecent, p \in ClosePairs :
            /\ k <= n
            /\ day_bars = MADays(n, k, p[1], p[2])
    /\ ma_result = NotCalled
    /\ q = None
    /\ scored = NotCalled
    /\ IdleDriver
    /\ IdleIO

MACall ==
    /\ ma_result = NotCalled
    /\ ma_result' = get_daily_moving_averages(day_bars)
    /\ UNCHANGED <<calc_vars, q, scored, day_bars, store, run_vars, io_vars>>

NextMA == MACall

SpecMA == InitMA /\ [][NextMA]_vars

-----------------------------------------------------------------------------
(* Specification of the RSI: one call on one set of bars *)

MaxRsiRows == 5           \* bars in the time range of the call
MaxPeriod == 2            \* the period argument

RsiCloses == {10000, 10001, 10002}

\* bars in bucket order: bar i closes at closes[i] and lies steps[i] days after
\* bar i - 1
RsiRows(closes, steps) ==
    [i \in DOMAIN closes |-> [day |-> SumRange(steps, 2, i), close |-> closes[i]]]

InitRSI ==
    /\ \E period \in -1..MaxPeriod, n \in 0..MaxRsiRows :
          \E closes \in [1..n -> RsiCloses], steps \in [2..n -> {0, 1}] :
              rsi_call = [period |-> period, rows |-> RsiRows(closes, steps)]
    /\ rsi_out = NotCalled /\ rsi_queries = 0
    /\ vol_call = None /\ vol_daily_out = NotCalled /\ vol_datapoint_out = NotCalled
    /\ pt_call = None /\ pt_out = NotCalled
    /\ q = None
    /\ scored = NotCalled
    /\ day_bars = <<>>
    /\ ma_result = NotCalled
    /\ IdleDriver
    /\ IdleIO

RsiCall ==
    /\ rsi_out = NotCalled
    /\ rsi_out' = calculate_rsi(rsi_call.period, rsi_call.rows)
    /\ rsi_queries' = calculate_rsi_queries(rsi_call.period, rsi_call.rows)
    /\ UNCHANGED <<rsi_call, vol_call, vol_daily_out, vol_datapoint_out, pt_call, pt_out,
                   q, scored, day_bars, ma_result, store, run_vars, io_vars>>

NextRSI == RsiCall

SpecRSI == InitRSI /\ [][NextRSI]_vars

-----------------------------------------------------------------------------
(* Specification of the volume trend: both variants called on one queryset *)

MaxVolumeRows == 5        \* bars in the queryset
MaxWindow == 2            \* the days argument

VolumeSamples == {0, 100}
DaySteps == {0, 1, 3}

\* bars in time order: bar i trades volumes[i] and lies steps[i] days after
\* bar i - 1
VolumeRows(volumes, steps) ==
    [i \in DOMAIN volumes |-> [day |-> SumRange(steps, 2, i), volume |-> volumes[i]]]

InitVolume ==
    /\ \E days \in 1..MaxWindow, n \in 0..MaxVolumeRows :
          \E volumes \in [1..n -> VolumeSamples], steps \in [2..n -> DaySteps] :
              vol_call = [days |-> days, rows |-> VolumeRows(volumes, steps)]
    /\ vol_daily_out = NotCalled /\ vol_datapoint_out = NotCalled
    /\ rsi_call = None /\ rsi_out = NotCalled /\ rsi_queries = 0
    /\ pt_call = None /\ pt_out = NotCalled
    /\ q = None
    /\ scored = NotCalled
    /\ day_bars = <<>>
    /\ ma_result = NotCalled
    /\ IdleDriver
    /\ IdleIO

VolumeDailyCall ==
    /\ vol_daily_out = NotCalled
    /\ vol_daily_out' = get_volume_trend_daily(vol_call.days, daily_volumes(vol_call.rows))
    /\ UNCHANGED <<rsi_call, rsi_out, rsi_queries, vol_call, vol_datapoint_out, pt_call,
                   pt_out, q, scored, day_bars, ma_result, store, run_vars, io_vars>>

VolumeDatapointCall ==
    /\ vol_datapoint_out = NotCalled
    /\ vol_datapoint_out' = get_volume_trend_datapoint(vol_call.days, vol_call.rows)
    /\ UNCHANGED <<rsi_call, rsi_out, rsi_queries, vol_call, vol_daily_out, pt_call,
                   pt_out, q, scored, day_bars, ma_result, store, run_vars, io_vars>>

NextVolume == VolumeDailyCall \/ VolumeDatapointCall

SpecVolume == InitVolume /\ [][NextVolume]_vars

-----------------------------------------------------------------------------
(* Specification of the price target: one call on one queryset *)

MaxPriceRows == 3         \* bars in the queryset

PriceSamples == {10000, 10001, 10003}

\* a bar trades between its low and its high and closes within them
PriceBars ==
    {b \in [high : PriceSamples, low : PriceSamples, close : PriceSamples] :
        b.low <= b.close /\ b.close <= b.high}

\* bars in time order: bar i lies steps[i] days after bar i - 1
PriceRows(bars, steps) ==
    [i \in DOMAIN bars |->
        [day |-> SumRange(steps, 2, i), high |-> bars[i].high, low |-> bars[i].low,
         close |-> bars[i].close]]

InitPriceTarget ==
    /\ \E n \in 0..MaxPriceRows :
          \E bars \in [1..n -> PriceBars], steps \in [2..n -> {0, 1}] :
              pt_call = [rows |-> PriceRows(bars, steps)]
    /\ pt_out = NotCalled
    /\ rsi_call = None /\ rsi_out = NotCalled /\ rsi_queries = 0
    /\ vol_call = None /\ vol_daily_out = NotCalled /\ vol_datapoint_out = NotCalled
    /\ q = None
    /\ scored = NotCalled
    /\ day_bars = <<>>
    /\ ma_result = NotCalled
    /\ IdleDriver
    /\ IdleIO

PriceTargetCall ==
    /\ pt_out = NotCalled
    /\ pt_out' = get_price_target(daily_prices(pt_call.rows))
    /\ UNCHANGED <<rsi_call, rsi_out, rsi_queries, vol_call, vol_daily_out,
                   vol_datapoint_out, pt_call, q, scored, day_bars, ma_result, store,
                   run_vars, io_vars>>

NextPriceTarget == PriceTargetCall

SpecPriceTarget == InitPriceTarget /\ [][NextPriceTarget]_vars

-----------------------------------------------------------------------------
(* Claims about the backfill driver (Spec) *)

LoopExited(r) == pc[r] = "day_loop" /\ current_date[r] > end_date

Pending(r, day) ==
    {i \in DOMAIN indicators_to_insert[r] : indicators_to_insert[r][i].time = EvalTime(day)}

RowsOf(company, day) ==
    {i \in DOMAIN store : StockIndicatorKey(store[i]) = <<company, day>>}

\* C1: a day whose evaluation raises is logged, gets no snapshot and does not
\* stop the loop: while a run is in the day loop of a company, every day before
\* current_date was either skipped as existing, or evaluated; an evaluated day
\* is either logged as failed and absent from indicators_to_insert, or has its
\* snapshot, stamped 23:59:59 of that day, in indicators_to_insert; a failed day
\* lies behind current_date, and at the exit of the loop this covers the range.
C1_ErrorIsolated ==
    \A r \in Runs :
        pc[r] = "day_loop" =>
            LET c == company_idx[r]
            IN  /\ \A d \in RangeDays :
                      (d < current_date[r] \/ LoopExited(r)) =>
                          \/ d \in existing_dates[r][c] /\ <<c, d>> \notin evaluated[r]
                          \/ /\ <<c, d>> \in evaluated[r]
                             /\ <<c, d>> \in logged[r]
                             /\ Pending(r, d) = {}
                          \/ /\ <<c, d>> \in evaluated[r]
                             /\ <<c, d>> \notin logged[r]
                             /\ Cardinality(Pending(r, d)) = 1
                /\ \A d \in RangeDays : <<c, d>> \in logged[r] => d < current_date[r]

C1_Witness ==
    \E r \in Runs :
        /\ LoopExited(r)
        /\ \E d \in RangeDays :
              /\ d < end_date
              /\ <<company_idx[r], d>> \in logged[r]
              /\ <<company_idx[r], d + 1>> \in evaluated[r]

\* C2: a run over a range in which every day of the company had a snapshot at
\* the prefetch leaves the day loop with skipped_days equal to the number of
\* days of the range, having evaluated no day of the company and holding
\* nothing to insert, and the step that follows writes nothing to the store.
C2_FullRangeSkipped ==
    /\ [](\A r \in Runs :
            (LoopExited(r) /\ existing_dates[r][company_idx[r]] = RangeDays) =>
                /\ skipped_days[r] = Cardinality(RangeDays)
                /\ day_count[r] = Cardinality(RangeDays)
                /\ \A d \in RangeDays : <<company_idx[r], d>> \notin evaluated[r]
                /\ indicators_to_insert[r] = <<>>)
    /\ [][\A r \in Runs :
            (LoopExited(r) /\ existing_dates[r][company_idx[r]] = RangeDays
                /\ (pc'[r] = "finished" \/ company_idx'[r] = company_idx[r] + 1))
                    => store' = store]_vars

C2_Witness ==
    \E r \in Runs :
        /\ LoopExited(r)
        /\ existing_dates[r][company_idx[r]] = RangeDays
        /\ skipped_days[r] = NDays + 1

\* C3 (as claimed): every day a run evaluated has, at the exit of the day loop,
\* a snapshot stamped 23:59:59 of that day that was computed from bars no later
\* than that instant.
C3_NoLookAhead ==
    \A r \in Runs :
        LoopExited(r) =>
            \A d \in RangeDays :
                <<company_idx[r], d>> \in evaluated[r] =>
                    \E i \in Pending(r, d) :
                        NotAfter(indicators_to_insert[r][i].bars_upto, EvalTime(d))

\* C4 (as claimed): when both runs have finished, every (company, day) that both
\* evaluated, each having prefetched before the other wrote, has exactly one
\* snapshot in the store.
C4_OneSnapshotPerDay ==
    (\A r \in Runs : pc[r] = "finished") =>
        \A c \in Companies, d \in RangeDays :
            (\A r \in Runs : <<c, d>> \in evaluated[r]) =>
                Cardinality(RowsOf(c, d)) = 1

-----------------------------------------------------------------------------
(* Claims about the composite scorer (SpecScore) *)

Returned == scored.status = "ok"

\* C6 (as claimed): the score returned lies in -7..6.
C6_ScoreRangeAsClaimed == Returned => scored.score \in -7..6

\* C6 (amended): the score returned is an integer in -7..7.
C6_ScoreRange == Returned => scored.score \in -7..7

C6_Witness == Returned /\ scored.score = 7

\* C7: a returned result carries exactly 7 signals, each -1, 0 or +1, whose sum
\* is the score; pair i of (5/20, 20/50, 50/100, 100/200) gives +1 when the
\* shorter average is strictly greater and -1 otherwise; the price target gives
\* +1 when current_price < conservative_target, else -1; the volume change gives
\* +1 above 20, -1 below -20, else 0; the RSI gives -1 above 70, +1 below 30,
\* else 0, and 0 when the RSI result carries no rsi.
C7_Signals ==
    Returned =>
        LET ind == scored.indicators
            sig == scored.signals
            pair == << <<"ma_5", "ma_20">>, <<"ma_20", "ma_50">>,
                       <<"ma_50", "ma_100">>, <<"ma_100", "ma_200">> >>
            vol == ind["volume_change_percent_daily"][1]
        IN  /\ Len(sig) = 7
            /\ \A i \in 1..7 : sig[i] \in {-1, 0, 1}
            /\ scored.score = sig[1] + sig[2] + sig[3] + sig[4] + sig[5] + sig[6] + sig[7]
            /\ \A i \in 1..4 :
                  sig[i] = IF ind[pair[i][1]][1] > ind[pair[i][2]][1] THEN 1 ELSE -1
            /\ sig[5] = IF ind["current_price"][1] < ind["conservative_target"][1]
                        THEN 1 ELSE -1
            /\ sig[6] = IF vol.num > 20 * vol.den THEN 1
                        ELSE IF vol.num < (-20) * vol.den THEN -1 ELSE 0
            /\ sig[7] = IF "rsi" \notin DOMAIN ind THEN 0
                        ELSE IF ind["rsi"][1] > 70 * Scale THEN -1
                        ELSE IF ind["rsi"][1] < 30 * Scale THEN 1 ELSE 0

C7_Witness ==
    /\ Returned
    /\ scored.indicators["ma_5"] = scored.indicators["ma_20"]
    /\ scored.indicators["volume_change_percent_daily"][1].num =
           20 * scored.indicators["volume_change_percent_daily"][1].den
    /\ "rsi" \in DOMAIN scored.indicators
    /\ scored.indicators["rsi"] = <<70 * Scale>>
    /\ scored.signals = <<-1, -1, -1, -1, 1, 0, 0>>

VolumeTrendIsDict ==
    LET v == get_volume_trend_daily(q.days, LookbackDailyList(q))
    IN  v # None /\ ~IsRaise(v)

\* C8 (as claimed): with bars in the lookback window and a volume trend, a call
\* made while fewer than 200 daily closes exist (some average is absent)
\* returns a score.
C8_AbsentAverageTolerated ==
    (scored.status # "not_called" /\ Len(q.dates) < 200 /\ VolumeTrendIsDict)
        => Returned

\* C9 (as claimed): with at least one bar in the lookback window and all five
\* averages present, a call returns a score also when the volume trend is
\* absent or the RSI reports insufficient data.
C9_InsufficientDataRecovered ==
    (scored.status # "not_called" /\ q.in_lookback >= 1 /\ Len(q.dates) >= 200
        /\ ~IsRaise(get_volume_trend_daily(q.days, LookbackDailyList(q))))
        => Returned

-----------------------------------------------------------------------------
(* Claims about the moving averages (SpecMA) *)

MACalled == ma_result # NotCalled

\* the sum of the last closes of the w latest dates
RecentCloseSum(w) == SumSeq([j \in 1..w |-> day_bars[j][Len(day_bars[j])]])

ClaimedWindows == { <<5, "ma_5">>, <<20, "ma_20">>, <<50, "ma_50">>,
                    <<100, "ma_100">>, <<200, "ma_200">> }

\* C10 (as claimed): ma_w is None with fewer than w daily closes and otherwise
\* is exactly the arithmetic mean of the w most recent daily closes.
C10_ExactMean ==
    MACalled =>
        \A ws \in ClaimedWindows :
            IF Len(day_bars) < ws[1] THEN ma_result[ws[2]] = None
            ELSE /\ ma_result[ws[2]] # None
                 /\ ma_result[ws[2]][1] * ws[1] = RecentCloseSum(ws[1])

\* C10 (amended): ma_w is None with fewer than w daily closes and otherwise is
\* the arithmetic mean of the w most recent daily closes rounded to 4 decimal
\* places: it differs from the mean by at most half a unit of the 4th place.
C10_RoundedMean ==
    MACalled =>
        \A ws \in ClaimedWindows :
            IF Len(day_bars) < ws[1] THEN ma_result[ws[2]] = None
            ELSE /\ ma_result[ws[2]] # None
                 /\ LET diff == ma_result[ws[2]][1] * ws[1] - RecentCloseSum(ws[1])
                    IN  2 * diff <= ws[1] /\ 2 * diff >= -ws[1]

C10_Witness ==
    /\ MACalled
    /\ Len(day_bars) >= 5 /\ Len(day_bars) < 20
    /\ ma_result["ma_5"] # None /\ ma_result["ma_20"] = None
    /\ RecentCloseSum(5) % 5 # 0

-----------------------------------------------------------------------------
(* Claims about the RSI (SpecRSI) *)

RsiCalled == rsi_out # NotCalled
RsiValue == RsiCalled /\ "rsi" \in DOMAIN rsi_out /\ "error" \notin DOMAIN rsi_out
RsiError == RsiCalled /\ "error" \in DOMAIN rsi_out /\ "rsi" \notin DOMAIN rsi_out

\* the calendar days that have a bar, and the close of the last bar of each
RsiNumDays == Cardinality({rsi_call.rows[i].day : i \in DOMAIN rsi_call.rows})

RsiDailyClose(d) ==
    LET last == CHOOSE i \in DOMAIN rsi_call.rows :
                    /\ rsi_call.rows[i].day = d - 1
                    /\ \A j \in DOMAIN rsi_call.rows : rsi_call.rows[j].day = d - 1 => j <= i
    IN  rsi_call.rows[last].close

\* valid day v is raw day v + 1: its change against the close of the day before
RsiValidDays == IF RsiNumDays = 0 THEN 0 ELSE RsiNumDays - 1
DayChange(v) == RsiDailyClose(v + 1) - RsiDailyClose(v)
DayGain(v) == IF DayChange(v) > 0 THEN DayChange(v) ELSE 0
DayLoss(v) == IF DayChange(v) < 0 THEN -DayChange(v) ELSE 0

\* C11: a call that returns a value reports an rsi within 0..100 and an
\* avg_gain and an avg_loss that are not negative.
C11_RsiBounds ==
    RsiValue =>
        /\ Val(rsi_out.rsi) >= 0 /\ Val(rsi_out.rsi) <= 100 * Scale
        /\ Val(rsi_out.avg_gain) >= 0
        /\ Val(rsi_out.avg_loss) >= 0

C11_Witness ==
    /\ RsiValue
    /\ rsi_call.period = MaxPeriod
    /\ Len(rsi_call.rows) > rsi_call.period + 1
    /\ Val(rsi_out.rsi) > 0 /\ Val(rsi_out.rsi) < 100 * Scale
    /\ Val(rsi_out.avg_gain) > 0 /\ Val(rsi_out.avg_loss) > 0

\* C12 (as claimed): a call that returns a value reports rsi = 100 exactly when
\* no valid day (a day with a close on the day before) closes below the day
\* before it.
C12_HundredIffNoLoss ==
    RsiValue =>
        (Val(rsi_out.rsi) = 100 * Scale <=> \A v \in 1..RsiValidDays : DayLoss(v) = 0)

\* the averages the claim describes: the mean of f over valid days 1..period,
\* then one recurrence step for each of the valid days period + 1..k
RECURSIVE WilderOverDays(_, _, _)
WilderOverDays(f(_), period, k) ==
    IF k <= period
    THEN [num |-> SumSeq([v \in 1..period |-> f(v)]), den |-> period]
    ELSE LET prev == WilderOverDays(f, period, k - 1)
         IN  [num |-> prev.num * (period - 1) + f(k) * prev.den, den |-> prev.den * period]

\* C13 (as claimed): a call that returns a value had at least period valid
\* days, and its avg_gain and avg_loss are the means of gain and loss over the
\* first period valid days, carried through avg = (avg * (period - 1) + current)
\* / period once for each later valid day in order, rounded to 4 places.
C13_SeedThenRecurrenceOverDays ==
    RsiValue =>
        /\ RsiValidDays >= rsi_call.period
        /\ LET g == WilderOverDays(DayGain, rsi_call.period, RsiValidDays)
               l == WilderOverDays(DayLoss, rsi_call.period, RsiValidDays)
           IN  /\ Val(rsi_out.avg_gain) = RoundHalfEven(g.num, g.den)
               /\ Val(rsi_out.avg_loss) = RoundHalfEven(l.num, l.den)

\* C14 (as claimed): a call with period >= 1 returns the insufficient-data
\* error with days_available = the number of valid days and the period when
\* there are fewer than period valid days (fewer than period + 1 daily closes),
\* and returns an rsi and no error otherwise.
C14_InsufficientDays ==
    (RsiCalled /\ rsi_call.period >= 1) =>
        IF RsiValidDays < rsi_call.period
        THEN /\ RsiError
             /\ "days_available" \in DOMAIN rsi_out
             /\ rsi_out.days_available = Some(RsiValidDays)
             /\ rsi_out.period = Some(rsi_call.period)
        ELSE RsiValue

\* C15: a call with period < 1 returns a dict with an error entry and the
\* period, without an rsi, and has executed no query.
C15_InvalidPeriod ==
    (RsiCalled /\ rsi_call.period < 1) =>
        /\ RsiError
        /\ rsi_out.period = Some(rsi_call.period)
        /\ rsi_queries = 0

C15_Witness ==
    /\ RsiCalled
    /\ rsi_call.period = 0
    /\ Len(rsi_call.rows) = MaxRsiRows
    /\ RsiError

-----------------------------------------------------------------------------
(* Claims about the volume trend (SpecVolume) *)

VolDailyCalled == vol_daily_out # NotCalled
VolDatapointCalled == vol_datapoint_out # NotCalled

\* the calendar days that have a bar and the summed volume of a day
VolDays == {vol_call.rows[i].day : i \in DOMAIN vol_call.rows}

VolDaySum(d) ==
    SumSeq([i \in DOMAIN vol_call.rows |->
               IF vol_call.rows[i].day = d THEN vol_call.rows[i].volume ELSE 0])

VolLatestDay == CHOOSE d \in VolDays : \A e \in VolDays : e <= d

\* the N days immediately before the latest day
VolPrevDays ==
    CHOOSE S \in SUBSET (VolDays \ {VolLatestDay}) :
        /\ Cardinality(S) = vol_call.days
        /\ \A d \in S, e \in VolDays \ (S \cup {VolLatestDay}) : e < d

RECURSIVE VolSumOver(_)
VolSumOver(S) ==
    IF S = {} THEN 0 ELSE LET d == CHOOSE x \in S : TRUE IN VolDaySum(d) + VolSumOver(S \ {d})

\* the sum of the volumes of the N latest bars
VolFrameSum ==
    SumSeq([i \in 1..vol_call.days |->
               vol_call.rows[Len(vol_call.rows) - i + 1].volume])

AbsentOrError(out) ==
    /\ ~IsRaise(out)
    /\ out = None \/ "error" \in DOMAIN out

\* C16 (as claimed): when the average the latest volume is compared with is
\* exactly 0, either variant returns an absent or error result and raises
\* nothing.
C16_ZeroAverageAbsent ==
    /\ (VolDailyCalled /\ Cardinality(VolDays) >= vol_call.days + 1
            /\ VolSumOver(VolPrevDays) = 0)
        => AbsentOrError(vol_daily_out)
    /\ (VolDatapointCalled /\ Len(vol_call.rows) >= vol_call.days /\ VolFrameSum = 0)
        => AbsentOrError(vol_datapoint_out)

\* C17: get_volume_trend_daily returns None when fewer than N + 1 days have
\* bars; otherwise, when the mean of the summed volumes of the N days next
\* before the latest day is not 0 (the zero mean is the case of C16), it returns
\* that mean as avg_volume_daily, the summed volume of the latest day as
\* latest_volume_daily, and (latest - avg) / avg * 100 as the change.
C17_DailyVolumeTrend ==
    VolDailyCalled =>
        IF Cardinality(VolDays) < vol_call.days + 1 THEN vol_daily_out = None
        ELSE LET n == vol_call.days
                 total == VolSumOver(VolPrevDays)
                 latest == VolDaySum(VolLatestDay)
             IN  total # 0 =>
                    /\ vol_daily_out # None /\ ~IsRaise(vol_daily_out)
                    /\ LET avg == Val(vol_daily_out.avg_volume_daily)
                           lat == Val(vol_daily_out.latest_volume_daily)
                           chg == Val(vol_daily_out.volume_change_percent_daily)
                       IN  /\ avg.num * n = total * avg.den
                           /\ lat.num = latest * lat.den
                           /\ chg.num * total = (latest * n - total) * 100 * chg.den

C17_Witness ==
    /\ VolDailyCalled
    /\ Cardinality(VolDays) >= vol_call.days + 2
    /\ Cardinality({i \in DOMAIN vol_call.rows : vol_call.rows[i].day = VolLatestDay}) = 2
    /\ vol_daily_out # None /\ ~IsRaise(vol_daily_out)
    /\ Val(vol_daily_out.volume_change_percent_daily).num > 0
    /\ \E d \in VolDays \ (VolPrevDays \cup {VolLatestDay}) : VolDaySum(d) # 0

\* C18 (as claimed): over exactly N + 1 days that all have the same summed
\* volume V, get_volume_trend_daily returns a change of 0.
C18_EqualVolumesZeroChange ==
    (VolDailyCalled /\ Cardinality(VolDays) = vol_call.days + 1
        /\ \A d \in VolDays : VolDaySum(d) = VolDaySum(VolLatestDay))
        => /\ vol_daily_out # None /\ ~IsRaise(vol_daily_out)
           /\ Val(vol_daily_out.volume_change_percent_daily).num = 0

-----------------------------------------------------------------------------
(* Claims about the price target (SpecPriceTarget) *)

PtCalled == pt_out # NotCalled
PtRows == pt_call.rows
PtDays == {PtRows[i].day : i \in DOMAIN PtRows}

\* the highest high and the lowest low of all bars, the close of the last bar
PtHigh == CHOOSE h \in {PtRows[i].high : i \in DOMAIN PtRows} :
              \A i \in DOMAIN PtRows : PtRows[i].high <= h
PtLow == CHOOSE l \in {PtRows[i].low : i \in DOMAIN PtRows} :
             \A i \in DOMAIN PtRows : PtRows[i].low >= l
PtCurrent == PtRows[Len(PtRows)].close

\* the close of the last bar of day d, and the sum of these over a set of days
PtDailyClose(d) ==
    LET last == CHOOSE i \in DOMAIN PtRows :
                    /\ PtRows[i].day = d
                    /\ \A j \in DOMAIN PtRows : PtRows[j].day = d => j <= i
    IN  PtRows[last].close

RECURSIVE PtCloseSum(_)
PtCloseSum(S) ==
    IF S = {} THEN 0
    ELSE LET d == CHOOSE x \in S : TRUE IN PtDailyClose(d) + PtCloseSum(S \ {d})

\* C19: when the highest daily high equals the lowest daily low, the call
\* returns current_price, conservative_target, aggressive_target and
\* average_price all equal to the close of the most recent day.
C19_FlatMarket ==
    (PtCalled /\ PtRows # <<>> /\ PtHigh = PtLow) =>
        /\ pt_out # None
        /\ pt_out.current_price = Some(PriceUnit * PtCurrent)
        /\ pt_out.conservative_target = Some(PriceUnit * PtCurrent)
        /\ pt_out.aggressive_target = Some(PriceUnit * PtCurrent)
        /\ LET avg == Val(pt_out.average_price)
           IN  avg.num = PriceUnit * PtCurrent * avg.den

C19_Witness ==
    /\ PtCalled /\ PtRows # <<>>
    /\ PtHigh = PtLow
    /\ Cardinality(PtDays) >= 2
    /\ pt_out # None

\* C20: when the highest daily high exceeds the lowest daily low, the call
\* returns current_price = the close of the most recent day, conservative_target
\* = current_price + 0.382 * (period_high - period_low), aggressive_target =
\* current_price + 0.618 * (period_high - period_low), period_high and
\* period_low = the highest daily high and lowest daily low, and average_price =
\* the mean of the daily closes.
C20_FibonacciTargets ==
    (PtCalled /\ PtRows # <<>> /\ PtHigh > PtLow) =>
        /\ pt_out # None
        /\ pt_out.current_price = Some(1000 * PtCurrent)
        /\ pt_out.period_high = Some(1000 * PtHigh)
        /\ pt_out.period_low = Some(1000 * PtLow)
        /\ pt_out.conservative_target = Some(1000 * PtCurrent + 382 * (PtHigh - PtLow))
        /\ pt_out.aggressive_target = Some(1000 * PtCurrent + 618 * (PtHigh - PtLow))
        /\ LET avg == Val(pt_out.average_price)
           IN  avg.num * Cardinality(PtDays) = 1000 * PtCloseSum(PtDays) * avg.den

C20_Witness ==
    /\ PtCalled /\ Len(PtRows) = MaxPriceRows
    /\ Cardinality(PtDays) = 2
    /\ PtHigh > PtLow
    /\ PtRows[1].high = PtHigh /\ PtRows[Len(PtRows)].high < PtHigh
    /\ PtRows[Len(PtRows)].day = PtRows[Len(PtRows) - 1].day
    /\ PtRows[Len(PtRows)].close # PtRows[Len(PtRows) - 1].close
    /\ pt_out # None
    /\ Val(pt_out.conservative_target) > Val(pt_out.current_price)

-----------------------------------------------------------------------------
(* Further claims about the composite scorer (SpecScore) *)

SnapshotFields ==
    {"ma_5", "ma_20", "ma_50", "ma_100", "ma_200", "rsi", "avg_gain", "avg_loss",
     "current_price", "conservative_target", "aggressive_target", "average_price",
     "period_high", "period_low", "volume_change_percent_daily"}

\* C22: the indicator mapping of a returned result contains every field of the
\* snapshot schema, each as a present value or as the absent-marker None.
C22_MappingComplete ==
    Returned =>
        \A f \in SnapshotFields :
            /\ f \in DOMAIN scored.indicators
            /\ scored.indicators[f] = None \/ Len(scored.indicators[f]) = 1

C22_Witness ==
    /\ Returned
    /\ Len(q.dates) >= 200
    /\ q.in_lookback = q.days + 1
    /\ SnapshotFields \subseteq DOMAIN scored.indicators

\* C30: in a returned result the price-target signal (the fifth) is +1 exactly
\* when period_high > period_low and -1 exactly when they are equal, whatever
\* the current price.
C30_PriceSignalIsRangeSignal ==
    Returned =>
        LET ind == scored.indicators
            sig == scored.signals[5]
        IN  /\ sig = 1 <=> Val(ind["period_high"]) > Val(ind["period_low"])
            /\ sig = -1 <=> Val(ind["period_high"]) = Val(ind["period_low"])

C30_Witness ==
    /\ Returned
    /\ scored.signals[5] = -1
    /\ scored.indicators["period_high"] = scored.indicators["period_low"]
    /\ Val(scored.indicators["current_price"]) > 0

-----------------------------------------------------------------------------
(* Further claims about the backfill driver (Spec) *)

C28_StoreIndependentOfVerbose ==
    [][store' = store]_vars

C28_Witness ==
    \E r, o \in Runs :
        /\ pc[r] = "finished" /\ verbose[r]
        /\ \E d \in RangeDays : <<NumCompanies, d>> \in evaluated[r]
        /\ pc[o] = "finished" /\ ~verbose[o]

-----------------------------------------------------------------------------
(* Specification of the batched insert: one call on one table *)

MaxRecords == 3           \* records in the dataset
InsertDays == {0, 1}
InsertBatchSizes == {1, 2, batch_size}

\* a record as generate_historical_indicators builds it (tasks.py 246-250)
ValidRecord(day) ==
    [time |-> EvalTime(day), score |-> 1, indicators |-> <<>>, bars_upto |-> Now]

\* records that lack one of the required keys
InvalidRecords ==
    { [time |-> EvalTime(0), score |-> 1, bars_upto |-> Now],
      [time |-> EvalTime(0), indicators |-> <<>>, bars_upto |-> Now],
      [score |-> 1, indicators |-> <<>>, bars_upto |-> Now] }

InsertRecords == {ValidRecord(d) : d \in InsertDays} \cup InvalidRecords

InitInsert ==
    /\ \E n \in 0..MaxRecords :
          \E dataset \in [1..n -> InsertRecords], company \in {None, Some(1)},
             size \in InsertBatchSizes, failing \in SUBSET {1, 2},
             have \in SUBSET InsertDays :
              /\ store = TableOf({1} \X have)
              /\ ins_call = [dataset |-> dataset, company |-> company, batch_size |-> size,
                             failing |-> failing, table |-> store]
    /\ ins_out = NotCalled
    /\ chart_call = None /\ chart_out = NotCalled
    /\ fetch_call = None /\ fetch_attempt = None /\ fetch_log = <<>> /\ fetch_out = NotCalled
    /\ sync_call = None /\ sync_pos = None /\ sync_queue = <<>> /\ sync_requests = <<>>
    /\ IdleCalculators
    /\ q = None
    /\ scored = NotCalled
    /\ day_bars = <<>>
    /\ ma_result = NotCalled
    /\ pc = [r \in Runs |-> "idle"]
    /\ verbose = [r \in Runs |-> TRUE]
    /\ existing_dates = [r \in Runs |-> [c \in Companies |-> {}]]
    /\ company_idx = [r \in Runs |-> 1]
    /\ current_date = [r \in Runs |-> start_date]
    /\ day_count = [r \in Runs |-> 0]
    /\ skipped_days = [r \in Runs |-> 0]
    /\ indicators_to_insert = [r \in Runs |-> <<>>]
    /\ evaluated = [r \in Runs |-> {}]
    /\ logged = [r \in Runs |-> {}]
    /\ resumes = [r \in Runs |-> {}]

\* utils.py lines 80-82: without a company object the call raises
InsertCall ==
    /\ ins_out = NotCalled
    /\ IF ins_call.company = None
       THEN /\ ins_out' = Raise("Exception")
            /\ UNCHANGED store
       ELSE LET res == batch_insert_stock_indicators(store, ins_call.dataset,
                           Val(ins_call.company), ins_call.batch_size, ins_call.failing)
            IN  /\ store' = res.table
                /\ ins_out' = [status |-> "ok", value |-> res.processed_records]
    /\ UNCHANGED <<ins_call, chart_call, chart_out, fetch_call, fetch_attempt, fetch_log,
                   fetch_out, sync_call, sync_pos, sync_queue, sync_requests,
                   calc_vars, q, scored, day_bars, ma_result, run_vars>>

NextInsert == InsertCall

SpecInsert == InitInsert /\ [][NextInsert]_vars

-----------------------------------------------------------------------------
(* Claims about the batched insert (SpecInsert) *)

\* rows the call added to the table
RowsWritten == Len(store) - Len(ins_call.table)

\* C24 (as claimed): the number batch_insert_stock_indicators returns is the
\* number of snapshots the call wrote to the store; invalid records, records of
\* a failed batch and records ignored on a conflict are not counted.
C24_ReturnsCountWritten ==
    ins_out.status = "ok" => ins_out.value = RowsWritten

-----------------------------------------------------------------------------
(* views.stock_data_api *)

\* line 43
clamp_days(days) ==
    LET capped == IF days < 700 THEN days ELSE 700
    IN  IF capped > 1 THEN capped ELSE 1

RECURSIVE dates_ascending(_)
dates_ascending(dates) ==
    IF dates = {} THEN <<>>
    ELSE LET earliest == CHOOSE d \in dates : \A e \in dates : d <= e
         IN  <<earliest>> \o dates_ascending(dates \ {earliest})

\* lines 50-63: one record per date that has a bar, earliest date first; rows
\* are the bars of the queryset in time order
daily_quotes(rows) ==
    LET dates == dates_ascending({rows[i].day : i \in DOMAIN rows})
    IN  [k \in DOMAIN dates |->
            LET bars == SelectSeq(rows, LAMBDA r : r.day = dates[k])
            IN  [date |-> dates[k],
                 open |-> SeqMin([i \in DOMAIN bars |-> bars[i].open_price]),
                 high |-> SeqMax([i \in DOMAIN bars |-> bars[i].high_price]),
                 low |-> SeqMin([i \in DOMAIN bars |-> bars[i].low_price]),
                 close |-> SeqMax([i \in DOMAIN bars |-> bars[i].close_price]),
                 volume |-> SumSeq([i \in DOMAIN bars |-> bars[i].volume])]]

\* lines 46-47, 68: time__range=(now - days, now)
in_time_range(t, days) ==
    /\ NotAfter([day |-> Now.day - days, tod |-> "now"], t)
    /\ NotAfter(t, Now)

\* lines 66-80: date -> score and indicators of the snapshot of the company
\* that lies in the range; of several snapshots of one date the last one stays
indicator_dict(table, company, days) ==
    LET found == {i \in DOMAIN table :
                     table[i].company = company /\ in_time_range(table[i].time, days)}
        dates == {DateOf(table[i].time) : i \in found}
    IN  [d \in dates |->
            LET last == CHOOSE i \in found :
                            /\ DateOf(table[i].time) = d
                            /\ \A j \in found : DateOf(table[j].time) = d => j <= i
            IN  [score |-> table[last].score, indicators |-> table[last].indicators]]

\* lines 83-93
empty_chart_data ==
    [dates |-> <<>>, daily_data |-> <<>>, volumes |-> <<>>, scores |-> <<>>,
     indicators |-> [ma_5 |-> <<>>, ma_20 |-> <<>>, rsi |-> <<>>]]

\* variant: a day without a snapshot adds nothing to the indicator arrays
placeholders_left_out(data) == data

\* lines 115-120
placeholders(data) ==
    [data EXCEPT !.scores = Append(@, None),
                 !.indicators = [ma_5 |-> Append(@.ma_5, None),
                                 ma_20 |-> Append(@.ma_20, None),
                                 rsi |-> Append(@.rsi, None)]]

\* lines 96-120: the loop over the daily quotes from position k on
RECURSIVE chart_rows(_, _, _, _)
chart_rows(data, quotes, by_date, k) ==
    IF k > Len(quotes) THEN data
    ELSE LET quote == quotes[k]
             base == [data EXCEPT
                        !.dates = Append(@, quote.date),
                        !.daily_data = Append(@, [open |-> quote.open, high |-> quote.high,
                                                  low |-> quote.low, close |-> quote.close]),
                        !.volumes = Append(@, quote.volume)]
             next == IF quote.date \in DOMAIN by_date
                     THEN LET indicator == by_date[quote.date]
                              ind_data == indicator.indicators
                          IN  [base EXCEPT
                                 !.scores = Append(@, Some(indicator.score)),
                                 !.indicators =
                                     [ma_5 |-> Append(@.ma_5, Get(ind_data, "ma_5", None)),
                                      ma_20 |-> Append(@.ma_20, Get(ind_data, "ma_20", None)),
                                      rsi |-> Append(@.rsi, Get(ind_data, "rsi", None))]]
                     ELSE placeholders(base)
         IN  chart_rows(next, quotes, by_date, k + 1)

\* lines 17-122: the response for a ticker that is, or is not, a company
stock_data_api(company, days, rows, table) ==
    IF company = None THEN [status |-> "error", code |-> 404]
    ELSE [status |-> "ok", code |-> 200] @@
         chart_rows(empty_chart_data, daily_quotes(rows),
                    indicator_dict(table, Val(company), clamp_days(days)), 1)

-----------------------------------------------------------------------------
(* Specification of the chart API: one request on one content of the stores *)

MaxChartRows == 3         \* StockQuote rows of the company in the range

\* the days query parameter, before line 43
ChartDayArgs == {0, 1, 2, 701}

ChartBars ==
    { [open_price |-> 10000, high_price |-> 10003, low_price |-> 10000,
       close_price |-> 10003, volume |-> 100],
      [open_price |-> 10003, high_price |-> 10003, low_price |-> 10000,
       close_price |-> 10000, volume |-> 0],
      [open_price |-> 10001, high_price |-> 10001, low_price |-> 10001,
       close_price |-> 10001, volume |-> 100] }

\* the indicators of a stored snapshot: ma_20 stored as null, or keys missing
ChartIndicators ==
    { [ma_5 |-> Some(10001), ma_20 |-> None, rsi |-> Some(500000)],
      [ma_5 |-> Some(10001)] }

ChartRow(company, day, score, ind) ==
    [company |-> company, time |-> EvalTime(day), score |-> score,
     indicators |-> ind, bars_upto |-> EvalTime(day)]

\* the table with a snapshot of company 1 for the days of have, scored day - 1,
\* and a snapshot of company 2 for every day
RECURSIVE ChartTable(_, _)
ChartTable(have, ind) ==
    IF have = {} THEN [d \in 1..Cardinality(RangeDays) |-> ChartRow(2, d - 1, 7, ind)]
    ELSE LET day == CHOOSE d \in have : \A e \in have : d <= e
         IN  <<ChartRow(1, day, day - 1, ind)>> \o ChartTable(have \ {day}, ind)

\* the first day of the range of a request
ChartRangeStart(days) ==
    IF Now.day - clamp_days(days) > start_date THEN Now.day - clamp_days(days) ELSE start_date

InitChart ==
    /\ \E company \in {None, Some(1)}, days \in ChartDayArgs, n \in 0..MaxChartRows,
          have \in SUBSET RangeDays, ind \in ChartIndicators :
          \E bars \in [1..n -> ChartBars], day_of \in [1..n -> ChartRangeStart(days)..Now.day] :
              /\ \A i \in 2..n : day_of[i - 1] <= day_of[i]
              /\ chart_call = [company |-> company, days |-> days,
                               bars |-> [i \in 1..n |-> [day |-> day_of[i]] @@ bars[i]]]
              /\ store = ChartTable(have, ind)
    /\ chart_out = NotCalled
    /\ ins_call = None /\ ins_out = NotCalled
    /\ fetch_call = None /\ fetch_attempt = None /\ fetch_log = <<>> /\ fetch_out = NotCalled
    /\ sync_call = None /\ sync_pos = None /\ sync_queue = <<>> /\ sync_requests = <<>>
    /\ IdleCalculators
    /\ q = None
    /\ scored = NotCalled
    /\ day_bars = <<>>
    /\ ma_result = NotCalled
    /\ pc = [r \in Runs |-> "idle"]
    /\ verbose = [r \in Runs |-> TRUE]
    /\ existing_dates = [r \in Runs |-> [c \in Companies |-> {}]]
    /\ company_idx = [r \in Runs |-> 1]
    /\ current_date = [r \in Runs |-> start_date]
    /\ day_count = [r \in Runs |-> 0]
    /\ skipped_days = [r \in Runs |-> 0]
    /\ indicators_to_insert = [r \in Runs |-> <<>>]
    /\ evaluated = [r \in Runs |-> {}]
    /\ logged = [r \in Runs |-> {}]
    /\ resumes = [r \in Runs |-> {}]

ChartCall ==
    /\ chart_out = NotCalled
    /\ chart_out' = stock_data_api(chart_call.company, chart_call.days, chart_call.bars, store)
    /\ UNCHANGED <<chart_call, ins_call, ins_out, fetch_call, fetch_attempt, fetch_log,
                   fetch_out, sync_call, sync_pos, sync_queue, sync_requests,
                   calc_vars, q, scored, day_bars, ma_result, store, run_vars>>

NextChart == ChartCall

SpecChart == InitChart /\ [][NextChart]_vars

-----------------------------------------------------------------------------
(* Claims about the chart API (SpecChart) *)

ChartReturned == chart_out.status = "ok"

\* the bars of the request that lie on a date, in time order
BarsOn(date) == SelectSeq(chart_call.bars, LAMBDA r : r.day = date)

\* C21 (as claimed): every per-day close of daily_data is the close of the bar
\* with the greatest timestamp of that day.
C21_CloseIsLastBar ==
    ChartReturned =>
        \A i \in DOMAIN chart_out.dates :
            chart_out.daily_data[i].close =
                BarsOn(chart_out.dates[i])[Len(BarsOn(chart_out.dates[i]))].close_price

\* snapshots stored for the company of the request on a date
SnapshotsOn(date) ==
    {i \in DOMAIN store :
        store[i].company = Val(chart_call.company) /\ DateOf(store[i].time) = date}

\* C23: a response carries dates, daily_data, volumes, scores, ma_5, ma_20 and
\* rsi of one length, one entry per date that has a bar, in ascending date
\* order; the entry of scores at a position is null or the score of a snapshot
\* stored for the date at that position; a date with bars and no stored
\* snapshot has null in scores and in the three indicator arrays; without
\* bars every array is empty.
C23_ArraysAligned ==
    ChartReturned =>
        LET n == Len(chart_out.dates)
            arrays == <<chart_out.daily_data, chart_out.volumes, chart_out.scores,
                        chart_out.indicators.ma_5, chart_out.indicators.ma_20,
                        chart_out.indicators.rsi>>
        IN  /\ \A a \in DOMAIN arrays : Len(arrays[a]) = n
            /\ {chart_out.dates[i] : i \in 1..n} = {chart_call.bars[j].day : j \in DOMAIN chart_call.bars}
            /\ \A i \in 2..n : chart_out.dates[i - 1] < chart_out.dates[i]
            /\ \A i \in 1..n :
                  /\ chart_out.scores[i] # None =>
                        \E k \in SnapshotsOn(chart_out.dates[i]) :
                            /\ chart_out.scores[i] = Some(store[k].score)
                            /\ chart_out.indicators.ma_5[i] = Get(store[k].indicators, "ma_5", None)
                            /\ chart_out.indicators.ma_20[i] = Get(store[k].indicators, "ma_20", None)
                            /\ chart_out.indicators.rsi[i] = Get(store[k].indicators, "rsi", None)
                  /\ SnapshotsOn(chart_out.dates[i]) = {} =>
                        /\ chart_out.scores[i] = None
                        /\ chart_out.indicators.ma_5[i] = None
                        /\ chart_out.indicators.ma_20[i] = None
                        /\ chart_out.indicators.rsi[i] = None
            /\ chart_call.bars = <<>> => \A a \in DOMAIN arrays : arrays[a] = <<>>

C23_Witness ==
    /\ ChartReturned
    /\ Len(chart_out.dates) = 3
    /\ chart_out.scores[1] # None
    /\ chart_out.scores[2] = None
    /\ SnapshotsOn(chart_out.dates[2]) = {}
    /\ chart_out.indicators.rsi[1] = None

-----------------------------------------------------------------------------
(* PolygonAPIClient.fetch_data *)

\* _polygon.py lines 58-59, in milliseconds
POLYGON_REQUESTS_WINDOW == 60000
POLYGON_MIN_INTERVAL == 12000

fetch_default_max_retries == 4

\* values of the Retry-After header of a 429 response; str.isdigit and int
RetryAfterHeaders == {None, Some("0"), Some("7"), Some("soon")}
isdigit(text) == text \in {"0", "7"}
int_of(text) == IF text = "7" THEN 7 ELSE 0

\* random.uniform(0.9, 1.1), in thousandths
JitterSamples == {900, 1000, 1100}

\* lines 259-267: the sleep after a 429 response, in milliseconds
retry_delay(retry_after, attempt, jitter) ==
    IF retry_after # None /\ isdigit(Val(retry_after))
    THEN int_of(Val(retry_after)) * 1000
    ELSE LET backoff == (POLYGON_MIN_INTERVAL * (2 ^ attempt) * jitter) \div 1000
         IN  IF backoff < POLYGON_REQUESTS_WINDOW THEN backoff ELSE POLYGON_REQUESTS_WINDOW

\* variant: one more request after the retries are used up
retries_exhausted_late(attempt, max_retries) == attempt > max_retries

\* line 253
retries_exhausted(attempt, max_retries) == attempt >= max_retries

\* what requests.get can come back with: a response whose status is no error,
\* a 4xx/5xx status other than 429, a 429, or no response (it raises)
ResponseKinds == {"ok", "error", "rate_limited", "no_response"}

-----------------------------------------------------------------------------
(* Specification of fetch_data: one call, each request answered by the server *)

MaxRetries == 4           \* the largest max_retries argument

InitFetch ==
    /\ \E max_retries \in 0..MaxRetries, api_key \in BOOLEAN :
          fetch_call = [max_retries |-> max_retries, api_key |-> api_key]
    /\ fetch_attempt = None /\ fetch_log = <<>> /\ fetch_out = NotCalled
    /\ ins_call = None /\ ins_out = NotCalled
    /\ chart_call = None /\ chart_out = NotCalled
    /\ sync_call = None /\ sync_pos = None /\ sync_queue = <<>> /\ sync_requests = <<>>
    /\ IdleCalculators
    /\ q = None
    /\ scored = NotCalled
    /\ day_bars = <<>>
    /\ ma_result = NotCalled
    /\ IdleDriver

\* lines 241-244: get_headers raises without an API key
FetchStart ==
    /\ fetch_out = NotCalled
    /\ fetch_attempt = None
    /\ IF fetch_call.api_key
       THEN fetch_attempt' = Some(0) /\ UNCHANGED fetch_out
       ELSE fetch_out' = Raise("RuntimeError") /\ UNCHANGED fetch_attempt
    /\ UNCHANGED <<fetch_call, fetch_log, ins_call, ins_out, chart_call, chart_out,
                   sync_call, sync_pos, sync_queue, sync_requests,
                   calc_vars, q, scored, day_bars, ma_result, store, run_vars>>

\* lines 245-270: one pass of "while True"
FetchRequest ==
    /\ fetch_out = NotCalled
    /\ fetch_attempt # None
    /\ \E kind \in ResponseKinds, retry_after \in RetryAfterHeaders, jitter \in JitterSamples :
          LET attempt == Val(fetch_attempt)
              delay == retry_delay(retry_after, attempt, jitter)
          IN  IF kind = "no_response"
              THEN /\ fetch_out' = Raise("RequestException")
                   /\ fetch_log' = Append(fetch_log, [response |-> kind, slept |-> 0])
                   /\ UNCHANGED fetch_attempt
              ELSE IF kind = "error"
              THEN /\ fetch_out' = Raise("HTTPError")
                   /\ fetch_log' = Append(fetch_log, [response |-> kind, slept |-> 0])
                   /\ UNCHANGED fetch_attempt
              ELSE IF kind = "ok"
              THEN /\ fetch_out' = [status |-> "ok", json |-> Len(fetch_log) + 1]
                   /\ fetch_log' = Append(fetch_log, [response |-> kind, slept |-> 0])
                   /\ UNCHANGED fetch_attempt
              ELSE IF retries_exhausted(attempt, fetch_call.max_retries)
              THEN /\ fetch_out' = Raise("PolygonRateLimitError")
                   /\ fetch_log' = Append(fetch_log, [response |-> kind, slept |-> 0])
                   /\ UNCHANGED fetch_attempt
              ELSE /\ fetch_log' = Append(fetch_log, [response |-> kind, slept |-> delay])
                   /\ fetch_attempt' = Some(attempt + 1)
                   /\ UNCHANGED fetch_out
    /\ UNCHANGED <<fetch_call, ins_call, ins_out, chart_call, chart_out,
                   sync_call, sync_pos, sync_queue, sync_requests,
                   calc_vars, q, scored, day_bars, ma_result, store, run_vars>>

NextFetch == FetchStart \/ FetchRequest

\* the call is sequential code: while it has a step to take it takes it
SpecFetch == InitFetch /\ [][NextFetch]_vars /\ WF_vars(NextFetch)

-----------------------------------------------------------------------------
(* Claims about fetch_data (SpecFetch) *)

FetchDone == fetch_out # NotCalled

AllRateLimited(n) == \A i \in 1..n : fetch_log[i].response = "rate_limited"

\* C25: for max_retries >= 0 a call of fetch_data makes at most
\* max_retries + 1 HTTP requests and ends.  Every request before the last one
\* made was answered 429.  The call returns the JSON of a response exactly when
\* the last response is no error and not 429, that response being the one
\* returned; it raises HTTPError exactly when the last response is an error
\* other than 429; it raises PolygonRateLimitError exactly when it made
\* max_retries + 1 requests and all were answered 429.
C25_FetchTerminates ==
    /\ [](LET n == Len(fetch_log)
              last == fetch_log[n].response
          IN  /\ n <= fetch_call.max_retries + 1
              /\ AllRateLimited(n - 1)
              /\ (n > 0 /\ ~FetchDone) => last = "rate_limited"
              /\ fetch_out.status = "ok" <=> (n > 0 /\ last = "ok")
              /\ fetch_out.status = "ok" => fetch_out.json = n
              /\ fetch_out = Raise("HTTPError") <=> (n > 0 /\ last = "error")
              /\ fetch_out = Raise("PolygonRateLimitError") <=>
                    (FetchDone /\ n = fetch_call.max_retries + 1 /\ AllRateLimited(n)))
    /\ <>FetchDone

C25_Witness ==
    /\ fetch_out = Raise("PolygonRateLimitError")
    /\ fetch_call.max_retries = fetch_default_max_retries
    /\ Len(fetch_log) = 5
    /\ \E i \in 1..4 : fetch_log[i].slept = POLYGON_REQUESTS_WINDOW
    /\ \E i \in 1..4 : fetch_log[i].slept = 7000

-----------------------------------------------------------------------------
(* tasks.sync_historical_stock_data and tasks.sync_company_stock_quotes *)

\* tasks.py line 147
starting_days_ago(years_ago) == years_ago * 365 + (years_ago \div 4)

\* line 149
batch_days_size == 30

\* variant: every other chunk is scheduled
next_chunk_skipping(i) == i + 2 * batch_days_size

\* line 155: the step of range(batch_days_size, starting_days_ago, batch_days_size)
next_chunk(i) == i + batch_days_size

\* lines 56-58: strftime of now - days_ago keeps the date
from_date(days_ago) == Now.day - days_ago

\* variant: the window ends batch_days_size - 1 days after its start
to_date_within_chunk(days_ago, size) == from_date(days_ago) + size - 1

\* lines 61-62
to_date(days_ago, size) == from_date(days_ago) + size + 1

\* the position of the loops after the pass at (company, i), None at the end
sync_next_pos(company, i, years_ago) ==
    IF next_chunk(i) < starting_days_ago(years_ago)
    THEN Some([company |-> company, i |-> next_chunk(i)])
    ELSE IF company < NumCompanies /\ batch_days_size < starting_days_ago(years_ago)
    THEN Some([company |-> company + 1, i |-> batch_days_size])
    ELSE None

-----------------------------------------------------------------------------
(* Specification of the historical sync: the task schedules one *)
(* sync_company_stock_quotes per chunk, a worker runs them in order *)

MaxYears == 4             \* the largest years_ago argument

InitSync ==
    /\ \E years_ago \in 1..MaxYears :
          /\ sync_call = [years_ago |-> years_ago]
          /\ sync_pos = IF batch_days_size < starting_days_ago(years_ago)
                        THEN Some([company |-> 1, i |-> batch_days_size]) ELSE None
    /\ sync_queue = <<>> /\ sync_requests = <<>>
    /\ ins_call = None /\ ins_out = NotCalled
    /\ chart_call = None /\ chart_out = NotCalled
    /\ fetch_call = None /\ fetch_attempt = None /\ fetch_log = <<>> /\ fetch_out = NotCalled
    /\ IdleCalculators
    /\ q = None
    /\ scored = NotCalled
    /\ day_bars = <<>>
    /\ ma_result = NotCalled
    /\ IdleDriver

\* lines 155-164: one pass of the chunk loop schedules one task
ScheduleChunk ==
    /\ sync_pos # None
    /\ LET pos == Val(sync_pos)
       IN  /\ sync_queue' = Append(sync_queue,
                                   [company_id |-> pos.company, days_ago |-> pos.i,
                                    batch_days_size |-> batch_days_size])
           /\ sync_pos' = sync_next_pos(pos.company, pos.i, sync_call.years_ago)
    /\ UNCHANGED <<sync_call, sync_requests, ins_call, ins_out, chart_call, chart_out,
                   fetch_call, fetch_attempt, fetch_log, fetch_out,
                   calc_vars, q, scored, day_bars, ma_result, store, run_vars>>

\* lines 55-72: a scheduled task computes its window and requests the bars
RunQuotesTask ==
    /\ sync_queue # <<>>
    /\ LET task == Head(sync_queue)
       IN  sync_requests' = Append(sync_requests,
               [company_id |-> task.company_id,
                from_date |-> from_date(task.days_ago),
                to_date |-> to_date(task.days_ago, task.batch_days_size)])
    /\ sync_queue' = Tail(sync_queue)
    /\ UNCHANGED <<sync_call, sync_pos, ins_call, ins_out, chart_call, chart_out,
                   fetch_call, fetch_attempt, fetch_log, fetch_out,
                   calc_vars, q, scored, day_bars, ma_result, store, run_vars>>

NextSync == ScheduleChunk \/ RunQuotesTask

SpecSync == InitSync /\ [][NextSync]_vars

-----------------------------------------------------------------------------
(* Claims about the historical sync (SpecSync) *)

\* the task has returned and every task it scheduled has run
SyncDone == sync_call # None /\ sync_pos = None /\ sync_queue = <<>>

\* the requests made for a company, in the order made
RequestsOf(company) == SelectSeq(sync_requests, LAMBDA r : r.company_id = company)

\* Polygon's range is inclusive on both ends
Covers(r, day) == r.from_date <= day /\ day <= r.to_date

\* the 30 days that end today
RecentDays == (Now.day - batch_days_size + 1)..Now.day

====
